---- MODULE Spec2Model ----
(***************************************************************************)
(* Model of src/tibetan-translation.py: TibetanTranslator.translate_titles *)
(* (the batch loop), process_batch (model call and reply reconciliation)   *)
(* and save_results (the three CSV projections).                           *)
(*                                                                         *)
(* Python values are represented as follows.                               *)
(*   - a dict is a function whose domain is its set of keys;               *)
(*   - a value that is not a dict (str, number, list, None used as a       *)
(*     container) is NonDict;                                              *)
(*   - None as a looked-up value is PyNone;                                *)
(*   - the value json.loads returns is [type, items]: type is "list",      *)
(*     "dict", "str" or "scalar", items is what iterating it yields        *)
(*     (the elements of a list, the keys of a dict, the characters of a    *)
(*     str; keys and characters are strs, hence NonDict).                  *)
(* Storage failures of to_csv and failures of read_csv are not modelled:   *)
(* the input file is readable and the destination is writable.             *)
(***************************************************************************)
EXTENDS Integers, Sequences, FiniteSets, TLC

VARIABLES
    DEBUG,          \* the module-level flag
    batch_size,     \* self.batch_size
    files,          \* the CSV files in storage
    pc,             \* where translate_titles is
    exception,      \* the class of the exception that ended the run, or ""
    title_data,     \* the loaded records
    i,              \* the loop variable of translate_titles
    batch,          \* the current batch
    prompt,         \* what create_prompt returned for the current batch
    response_text,  \* the reply to the current batch
    analyses,       \* what process_batch returned for the current batch
    all_analyses,   \* the accumulated entries
    processed,      \* the processed counter
    batches,        \* history: the batches formed so far
    returned,       \* history: what process_batch returned, per batch
    saves           \* history: the completed save_results calls

vars == <<DEBUG, batch_size, files, pc, exception, title_data, i, batch, prompt,
          response_text, analyses, all_analyses, processed, batches, returned,
          saves>>

(***************************************************************************)
(* Bounds of the model.                                                    *)
(***************************************************************************)
MaxRecords == 4

MaxBatchSize == 3

\* The literal 100 of `processed % 100 == 0`, scaled down so that the
\* processed count reaches, and passes, multiples of it within MaxRecords.
CheckpointInterval == 2

Min(a, b) == IF a < b THEN a ELSE b

IsPrefix(s, t) == Len(s) <= Len(t) /\ SubSeq(t, 1, Len(s)) = s

RECURSIVE Concat(_)
Concat(ss) == IF ss = <<>> THEN <<>> ELSE Head(ss) \o Concat(Tail(ss))

(***************************************************************************)
(* Python values.                                                          *)
(***************************************************************************)
PyNone == "<None>"

NonDict == [pytype |-> "str"]

IsDict(v) == "pytype" \notin DOMAIN v

\* dict.get(key, default)
Get(d, key, default) == IF key \in DOMAIN d THEN d[key] ELSE default

\* d[key] = value
SetItem(d, key, value) ==
    [k \in DOMAIN d \cup {key} |-> IF k = key THEN value ELSE d[k]]

(***************************************************************************)
(* The input: row k of the CSV has book_id k and a title of its own.       *)
(***************************************************************************)
Row(k) == [id |-> k, title |-> 100 + k]

Rows(n) == [k \in 1..n |-> Row(k)]

\* df.head(limit) for limit >= 0
DfHead(rows, limit) == SubSeq(rows, 1, Min(limit, Len(rows)))

(***************************************************************************)
(* Storage: a file name is <<projection, suffix>>, suffix 0 is the         *)
(* unmarked name and suffix c > 0 is "_partial_c".                         *)
(***************************************************************************)
Projections == {"translations", "corrections", "analysis"}

NoFile == [exists |-> FALSE, rows |-> <<>>]

File(rows) == [exists |-> TRUE, rows |-> rows]

FileNames == Projections \X (0..(MaxRecords + 1))

EmptyStorage == [f \in FileNames |-> NoFile]

\* What an earlier run left under the unmarked names.
StaleRow == [Book_ID |-> 0, Original |-> "old", Corrected |-> "older"]

PriorStorage ==
    [f \in FileNames |-> IF f[2] = 0 THEN File(<<StaleRow>>) ELSE NoFile]

\* save_results(analyses, output_base) is called without a checkpoint.
NoCheckpoint == -1

(***************************************************************************)
(* The replies of the model service.  A reply text is [valid, value]:      *)
(* valid says whether json.loads accepts it, value is what it returns.     *)
(***************************************************************************)
PyList(items) == [type |-> "list", items |-> items]

PyScalar == [type |-> "scalar", items |-> <<>>]

InvalidJson == [valid |-> FALSE, value |-> PyScalar]

Json(value) == [valid |-> TRUE, value |-> value]

\* response_text is not bound yet
NoResponse == [valid |-> FALSE, value |-> [type |-> "unbound", items |-> <<>>]]

FullAnalysis == [syntax |-> "s", lexical |-> "l", particles |-> "p"]

\* corrected equals original
ItemSame ==
    [original |-> "a", corrected |-> "a", analysis |-> FullAnalysis,
     translation |-> "t"]

\* a correction, in an entry that carries a book_id of its own
ItemFixed ==
    [book_id |-> 9, original |-> "a", corrected |-> "b",
     analysis |-> [syntax |-> "s"], translation |-> "t"]

\* no "corrected" key
ItemNoCorrected == [original |-> "a", translation |-> "t"]

\* "corrected": ""
ItemEmptyCorrected == [original |-> "a", corrected |-> "", translation |-> "t"]

\* "analysis" is a string, not an object
ItemBadAnalysis == [original |-> "a", corrected |-> "a", analysis |-> NonDict]

ReplyItems ==
    {ItemSame, ItemFixed, ItemNoCorrected, ItemEmptyCorrected,
     ItemBadAnalysis, NonDict}

\* JSON arrays of at most n elements, and one of n + 1 elements.
Arrays(n) ==
    UNION {[1..m -> ReplyItems] : m \in 0..n}
        \cup {[k \in 1..(n + 1) |-> ItemSame]}

\* The reply texts tried for a batch of n records.
Replies(n) ==
    {InvalidJson, Json(PyScalar)}
        \cup {Json([type |-> t, items |-> s]) :
                t \in {"str", "dict"}, s \in {<<>>, <<NonDict>>}}
        \cup {Json(PyList(s)) : s \in Arrays(n)}

(***************************************************************************)
(* create_prompt                                                           *)
(***************************************************************************)
NoPrompt == [count |-> 0, titles |-> <<>>]

create_prompt(self_batch_size, data) ==
    [count |-> self_batch_size,
     titles |-> [k \in 1..Len(data) |-> data[k].title]]

(***************************************************************************)
(* process_batch                                                           *)
(***************************************************************************)
\* [{'book_id': data['id']} for data in title_data]
Stubs(data) == [k \in 1..Len(data) |-> [book_id |-> data[k].id]]

Returns(value) == [raised |-> "", value |-> value]

Raises(class) == [raised |-> class, value |-> PyList(<<>>)]

\* Mutant: the handler never re-raises.
OuterExcept_AlwaysStubs(debug, class, data) == Returns(PyList(Stubs(data)))

\* except Exception as e: the handler of the outer try
OuterExcept(debug, class, data) ==
    IF debug THEN Raises(class) ELSE Returns(PyList(Stubs(data)))

\* The loop `for i, analysis in enumerate(analyses)` raises: IndexError at
\* title_data[i] once i reaches len(title_data), TypeError at the item
\* assignment when the element is not a dict.
LoopRaises(items, data) ==
    \E k \in 1..Len(items) : k > Len(data) \/ ~IsDict(items[k])

\* The class of the first exception of that loop.
LoopException(items, data) ==
    LET k == CHOOSE n \in 1..Len(items) :
                 /\ n > Len(data) \/ ~IsDict(items[n])
                 /\ \A m \in 1..(n - 1) : m <= Len(data) /\ IsDict(items[m])
    IN  IF k > Len(data) THEN "IndexError" ELSE "TypeError"

\* Mutant: an entry that already carries a book_id keeps it.
AddBookIds_KeepOwn(items, data) ==
    [k \in 1..Len(items) |->
        IF "book_id" \in DOMAIN items[k]
        THEN items[k]
        ELSE SetItem(items[k], "book_id", data[k].id)]

\* analysis['book_id'] = title_data[i]['id'] for every element
AddBookIds(items, data) ==
    [k \in 1..Len(items) |-> SetItem(items[k], "book_id", data[k].id)]

\* Mutant: no `except json.JSONDecodeError` clause, the outer handler gets it.
Reconciled_NoInnerExcept(debug, text, data) ==
    IF ~text.valid
    THEN OuterExcept(debug, "JSONDecodeError", data)
    ELSE IF text.value.type = "scalar"
         THEN OuterExcept(debug, "TypeError", data)
         ELSE IF LoopRaises(text.value.items, data)
         THEN OuterExcept(debug, LoopException(text.value.items, data), data)
         ELSE Returns([type |-> text.value.type,
                       items |-> AddBookIds(text.value.items, data)])

\* The inner try of process_batch, from json.loads to the return.
Reconciled(debug, text, data) ==
    IF ~text.valid
    THEN Returns(PyList(Stubs(data)))
    ELSE IF text.value.type = "scalar"
         THEN OuterExcept(debug, "TypeError", data)
         ELSE IF LoopRaises(text.value.items, data)
         THEN OuterExcept(debug, LoopException(text.value.items, data), data)
         ELSE Returns([type |-> text.value.type,
                       items |-> AddBookIds(text.value.items, data)])

(***************************************************************************)
(* save_results                                                            *)
(***************************************************************************)
\* Mutant: the suffix of a checkpoint does not hold the count.
Suffix_NoCount(checkpoint) ==
    IF checkpoint # NoCheckpoint /\ checkpoint # 0 THEN 1 ELSE 0

\* suffix = f"_partial_{checkpoint}" if checkpoint else ""
Suffix(checkpoint) ==
    IF checkpoint # NoCheckpoint /\ checkpoint # 0 THEN checkpoint ELSE 0

\* Mutant: entries that hold nothing but a book_id are skipped too.
Kept_SkipStubs(entries) ==
    SelectSeq(entries, LAMBDA a : DOMAIN a # {} /\ DOMAIN a # {"book_id"})

\* if not analysis: continue
Kept(entries) == SelectSeq(entries, LAMBDA a : DOMAIN a # {})

TranslationsRow(a) ==
    [Book_ID |-> Get(a, "book_id", ""),
     Original |-> Get(a, "original", ""),
     Translation |-> Get(a, "translation", "")]

\* if analysis.get('original') != analysis.get('corrected')
HasCorrection(a) == Get(a, "original", PyNone) # Get(a, "corrected", PyNone)

CorrectionsRow(a) ==
    [Book_ID |-> Get(a, "book_id", ""),
     Original |-> Get(a, "original", ""),
     Corrected |-> Get(a, "corrected", "")]

AnalysisRow(a) ==
    [Book_ID |-> Get(a, "book_id", ""),
     Original |-> Get(a, "original", ""),
     Syntactic_Analysis |-> Get(Get(a, "analysis", <<>>), "syntax", ""),
     Lexical_Analysis |-> Get(Get(a, "analysis", <<>>), "lexical", ""),
     Particle_Analysis |-> Get(Get(a, "analysis", <<>>), "particles", "")]

translations_data(entries) ==
    [k \in 1..Len(Kept(entries)) |-> TranslationsRow(Kept(entries)[k])]

corrections_data(entries) ==
    LET c == SelectSeq(Kept(entries), HasCorrection)
    IN  [k \in 1..Len(c) |-> CorrectionsRow(c[k])]

analysis_data(entries) ==
    [k \in 1..Len(Kept(entries)) |-> AnalysisRow(Kept(entries)[k])]

\* analysis.get('analysis', {}).get(...) raises AttributeError when the
\* "analysis" value is not a dict; the loop runs before any file is written.
SaveRaises(entries) ==
    \E k \in 1..Len(Kept(entries)) :
        ~IsDict(Get(Kept(entries)[k], "analysis", <<>>))

\* Mutant: the corrections file is written also when it has no row.
Written_AlwaysCorrections(store, entries, checkpoint) ==
    LET s == Suffix(checkpoint)
    IN  [f \in FileNames |->
            IF f = <<"translations", s>>
            THEN File(translations_data(entries))
            ELSE IF f = <<"corrections", s>>
            THEN File(corrections_data(entries))
            ELSE IF f = <<"analysis", s>>
            THEN File(analysis_data(entries))
            ELSE store[f]]

\* The files after the three to_csv calls.
Written(store, entries, checkpoint) ==
    LET s == Suffix(checkpoint)
    IN  [f \in FileNames |->
            IF f = <<"translations", s>>
            THEN File(translations_data(entries))
            ELSE IF f = <<"corrections", s>> /\ corrections_data(entries) # <<>>
            THEN File(corrections_data(entries))
            ELSE IF f = <<"analysis", s>>
            THEN File(analysis_data(entries))
            ELSE store[f]]

\* The projections save_results writes a file for.
WrittenProjections(entries) ==
    IF corrections_data(entries) # <<>>
    THEN Projections
    ELSE Projections \ {"corrections"}

SaveRecord(entries, checkpoint, at) ==
    [suffix |-> Suffix(checkpoint), at |-> at,
     wrote |-> WrittenProjections(entries)]

(***************************************************************************)
(* translate_titles                                                        *)
(***************************************************************************)
\* Mutant: the slice runs one record too far.
BatchAt_Overlap(data, start, size) ==
    SubSeq(data, start + 1, Min(start + size + 1, Len(data)))

\* title_data[i:i + self.batch_size]
BatchAt(data, start, size) ==
    SubSeq(data, start + 1, Min(start + size, Len(data)))

\* Mutant: the new entries are put in front.
Extend_Prepend(list, value) == value.items \o list

\* Mutant: the new entries replace the old ones.
Extend_Replace(list, value) == value.items

\* all_analyses.extend(analyses)
Extend(list, value) == list \o value.items

Init ==
    /\ DEBUG \in BOOLEAN
    /\ batch_size \in 1..MaxBatchSize
    /\ files \in {EmptyStorage, PriorStorage}
    /\ pc = "idle"
    /\ exception = ""
    /\ title_data = <<>>
    /\ i = 0
    /\ batch = <<>>
    /\ prompt = NoPrompt
    /\ response_text = NoResponse
    /\ analyses = PyList(<<>>)
    /\ all_analyses = <<>>
    /\ processed = 0
    /\ batches = <<>>
    /\ returned = <<>>
    /\ saves = <<>>

\* pd.read_csv, df.head(limit), title_data, all_analyses = [], processed = 0
Load ==
    /\ pc = "idle"
    /\ \E n \in 0..MaxRecords, limit \in 0..MaxRecords :
          title_data' = DfHead(Rows(n), limit)
    /\ all_analyses' = <<>>
    /\ processed' = 0
    /\ i' = 0
    /\ pc' = "loop"
    /\ UNCHANGED <<DEBUG, batch_size, files, exception, batch, prompt,
                   response_text, analyses, batches, returned, saves>>

\* for i in range(0, len(title_data), batch_size): batch = title_data[i:i+bs];
\* process_batch builds the prompt of the batch.
NextBatch ==
    /\ pc = "loop"
    /\ i < Len(title_data)
    /\ batch' = BatchAt(title_data, i, batch_size)
    /\ batches' = Append(batches, batch')
    /\ prompt' = create_prompt(batch_size, batch')
    /\ response_text' = NoResponse
    /\ pc' = "calling"
    /\ UNCHANGED <<DEBUG, batch_size, files, exception, title_data, i, analyses,
                   all_analyses, processed, returned, saves>>

\* self.client.messages.create returns a reply.
CallReturns ==
    /\ pc = "calling"
    /\ \E text \in Replies(Len(batch)) : response_text' = text
    /\ pc' = "reconcile"
    /\ UNCHANGED <<DEBUG, batch_size, files, exception, title_data, i, batch,
                   prompt, analyses, all_analyses, processed, batches, returned,
                   saves>>

\* Mutant: what was accumulated is saved before the error is re-raised.
CallRaises_SaveOnAbort ==
    /\ pc = "calling"
    /\ LET out == OuterExcept(DEBUG, "APIError", batch)
       IN  IF out.raised # ""
           THEN /\ pc' = "raised"
                /\ exception' = out.raised
                /\ files' = Written(files, all_analyses, NoCheckpoint)
                /\ UNCHANGED <<analyses, returned>>
           ELSE /\ pc' = "accumulate"
                /\ analyses' = out.value
                /\ returned' = Append(returned, out.value.items)
                /\ UNCHANGED <<exception, files>>
    /\ UNCHANGED <<DEBUG, batch_size, title_data, i, batch, prompt,
                   response_text, all_analyses, processed, batches, saves>>

\* self.client.messages.create raises.
CallRaises ==
    /\ pc = "calling"
    /\ LET out == OuterExcept(DEBUG, "APIError", batch)
       IN  IF out.raised # ""
           THEN /\ pc' = "raised"
                /\ exception' = out.raised
                /\ UNCHANGED <<analyses, returned>>
           ELSE /\ pc' = "accumulate"
                /\ analyses' = out.value
                /\ returned' = Append(returned, out.value.items)
                /\ UNCHANGED exception
    /\ UNCHANGED <<DEBUG, batch_size, files, title_data, i, batch, prompt,
                   response_text, all_analyses, processed, batches, saves>>

\* json.loads, the book_id loop and the two except clauses.
Reconcile ==
    /\ pc = "reconcile"
    /\ LET out == Reconciled(DEBUG, response_text, batch)
       IN  IF out.raised # ""
           THEN /\ pc' = "raised"
                /\ exception' = out.raised
                /\ UNCHANGED <<analyses, returned>>
           ELSE /\ pc' = "accumulate"
                /\ analyses' = out.value
                /\ returned' = Append(returned, out.value.items)
                /\ UNCHANGED exception
    /\ UNCHANGED <<DEBUG, batch_size, files, title_data, i, batch, prompt,
                   response_text, all_analyses, processed, batches, saves>>

\* all_analyses.extend(analyses); processed += len(batch)
Accumulate ==
    /\ pc = "accumulate"
    /\ all_analyses' = Extend(all_analyses, analyses)
    /\ processed' = processed + Len(batch)
    /\ pc' = "checkpoint"
    /\ UNCHANGED <<DEBUG, batch_size, files, exception, title_data, i, batch,
                   prompt, response_text, analyses, batches, returned, saves>>

\* Mutant: a checkpoint after every batch.
CheckpointDue_Always(count) == TRUE

\* if processed % 100 == 0
CheckpointDue(count) == count % CheckpointInterval = 0

\* if processed % 100 == 0: save_results(all_analyses, output_base, processed);
\* time.sleep(1); the loop variable advances.
MaybeCheckpoint ==
    /\ pc = "checkpoint"
    /\ IF CheckpointDue(processed)
       THEN IF SaveRaises(all_analyses)
            THEN /\ pc' = "raised"
                 /\ exception' = "AttributeError"
                 /\ UNCHANGED <<files, saves, i>>
            ELSE /\ files' = Written(files, all_analyses, processed)
                 /\ saves' = Append(saves,
                                SaveRecord(all_analyses, processed, processed))
                 /\ i' = i + batch_size
                 /\ pc' = "loop"
                 /\ UNCHANGED exception
       ELSE /\ i' = i + batch_size
            /\ pc' = "loop"
            /\ UNCHANGED <<files, saves, exception>>
    /\ UNCHANGED <<DEBUG, batch_size, title_data, batch, prompt, response_text,
                   analyses, all_analyses, processed, batches, returned>>

\* Mutant: no final save when nothing was accumulated.
Finalize_SkipEmpty ==
    /\ pc = "loop"
    /\ i >= Len(title_data)
    /\ IF all_analyses = <<>>
       THEN /\ pc' = "done"
            /\ UNCHANGED <<files, saves, exception>>
       ELSE IF SaveRaises(all_analyses)
       THEN /\ pc' = "raised"
            /\ exception' = "AttributeError"
            /\ UNCHANGED <<files, saves>>
       ELSE /\ files' = Written(files, all_analyses, NoCheckpoint)
            /\ saves' = Append(saves,
                           SaveRecord(all_analyses, NoCheckpoint, processed))
            /\ pc' = "done"
            /\ UNCHANGED exception
    /\ UNCHANGED <<DEBUG, batch_size, title_data, i, batch, prompt,
                   response_text, analyses, all_analyses, processed, batches,
                   returned>>

\* Mutant: no final save when a checkpoint was just written.
Finalize_SkipAfterCheckpoint ==
    /\ pc = "loop"
    /\ i >= Len(title_data)
    /\ IF saves # <<>> /\ saves[Len(saves)].at = processed
       THEN /\ pc' = "done"
            /\ UNCHANGED <<files, saves, exception>>
       ELSE IF SaveRaises(all_analyses)
       THEN /\ pc' = "raised"
            /\ exception' = "AttributeError"
            /\ UNCHANGED <<files, saves>>
       ELSE /\ files' = Written(files, all_analyses, NoCheckpoint)
            /\ saves' = Append(saves,
                           SaveRecord(all_analyses, NoCheckpoint, processed))
            /\ pc' = "done"
            /\ UNCHANGED exception
    /\ UNCHANGED <<DEBUG, batch_size, title_data, i, batch, prompt,
                   response_text, analyses, all_analyses, processed, batches,
                   returned>>

\* The loop is exhausted: save_results(all_analyses, output_base).
Finalize ==
    /\ pc = "loop"
    /\ i >= Len(title_data)
    /\ IF SaveRaises(all_analyses)
       THEN /\ pc' = "raised"
            /\ exception' = "AttributeError"
            /\ UNCHANGED <<files, saves>>
       ELSE /\ files' = Written(files, all_analyses, NoCheckpoint)
            /\ saves' = Append(saves,
                           SaveRecord(all_analyses, NoCheckpoint, processed))
            /\ pc' = "done"
            /\ UNCHANGED exception
    /\ UNCHANGED <<DEBUG, batch_size, title_data, i, batch, prompt,
                   response_text, analyses, all_analyses, processed, batches,
                   returned>>

Next ==
    \/ Load
    \/ NextBatch
    \/ CallReturns
    \/ CallRaises
    \/ Reconcile
    \/ Accumulate
    \/ MaybeCheckpoint
    \/ Finalize

Spec == Init /\ [][Next]_vars

(***************************************************************************)
(* Properties.                                                             *)
(***************************************************************************)
\* process_batch has dealt with the reply to the current batch.
Answered == response_text # NoResponse /\ pc # "reconcile"

\* process_batch raised, which ended the run.
BatchRaised ==
    pc = "raised" /\ exception \in {"APIError", "TypeError", "IndexError",
                                    "JSONDecodeError"}

\* process_batch returned one identifier-only entry per record of the batch.
StubbedBatch == ~BatchRaised /\ analyses = PyList(Stubs(batch))

IsArray(text) == text.valid /\ text.value.type = "list"

ArrayOfObjects(text) ==
    IsArray(text) /\ \A k \in 1..Len(text.value.items) : IsDict(text.value.items[k])

\* C1: a reply that is a JSON array whose length differs from the batch's
\* makes process_batch return one stub per record of the batch, in batch
\* order, without raising.
C1_LengthMismatchStubs ==
    (Answered /\ IsArray(response_text)
        /\ Len(response_text.value.items) # Len(batch))
        => StubbedBatch

\* C2: a reply that is not valid JSON makes process_batch return one stub per
\* record of the batch, in batch order, each with the record's identifier and
\* nothing else, and process_batch does not raise, whatever DEBUG is.
C2_InvalidJsonStubs ==
    (Answered /\ response_text = InvalidJson) => StubbedBatch

C2_Witness ==
    /\ DEBUG
    /\ response_text = InvalidJson
    /\ pc = "loop"
    /\ Len(batch) >= 2
    /\ i < Len(title_data)

\* C3: for a reply that is a JSON array of len(batch) objects, process_batch
\* returns len(batch) entries and the k-th has the identifier of the k-th
\* record of the batch, also when the reply entry had a book_id of its own.
C3_PositionalIdentifiers ==
    (Answered /\ ArrayOfObjects(response_text)
        /\ Len(response_text.value.items) = Len(batch))
        => /\ ~BatchRaised
           /\ analyses.type = "list"
           /\ Len(analyses.items) = Len(batch)
           /\ \A k \in 1..Len(batch) : analyses.items[k].book_id = batch[k].id

C3_Witness ==
    /\ pc = "accumulate"
    /\ Len(batch) >= 2
    /\ ArrayOfObjects(response_text)
    /\ Len(response_text.value.items) = Len(batch)
    /\ response_text.value.items[2] = ItemFixed

\* C4: a reply that is valid JSON but not an array of objects makes
\* process_batch return one stub per record of the batch without raising.
C4_ShapeMismatchStubs ==
    (Answered /\ response_text.valid /\ ~ArrayOfObjects(response_text))
        => StubbedBatch

\* C5: the batches formed so far are non-empty, all but the last have exactly
\* batch_size records, their concatenation is a prefix of the records, and it
\* is all the records once the loop is exhausted.
C5_BatchesPartition ==
    /\ \A k \in 1..Len(batches) :
          /\ batches[k] # <<>>
          /\ Len(batches[k]) <= batch_size
          /\ k < Len(batches) => Len(batches[k]) = batch_size
    /\ IsPrefix(Concat(batches), title_data)
    /\ (pc = "done" \/ (pc = "loop" /\ i >= Len(title_data)))
          => Concat(batches) = title_data

C5_Witness ==
    /\ pc = "done"
    /\ Len(batches) >= 2
    /\ Len(batches[Len(batches)]) < batch_size

\* What process_batch returned for the batches already accumulated.
Accumulated ==
    IF pc = "accumulate" THEN SubSeq(returned, 1, Len(returned) - 1) ELSE returned

\* C6: all_analyses is the concatenation, in batch order, of what
\* process_batch returned for the batches accumulated so far, and every step
\* leaves the old all_analyses as a prefix of the new one.
C6_AppendOnly ==
    /\ [](all_analyses = Concat(Accumulated))
    /\ [][IsPrefix(all_analyses, all_analyses')]_vars

C6_Witness ==
    /\ pc = "checkpoint"
    /\ Len(returned) >= 2
    /\ returned[1] # <<>>
    /\ returned[2] # <<>>
    /\ returned[1] # returned[2]

\* The last save_results call wrote all_analyses as it is now.
SaveIsCurrent ==
    /\ saves # <<>>
    /\ saves[Len(saves)].at = processed
    /\ pc \in {"loop", "done"}

\* The rows save_results last wrote as the corrections projection.
CorrectionsWritten ==
    IF "corrections" \in saves[Len(saves)].wrote
    THEN files[<<"corrections", saves[Len(saves)].suffix>>].rows
    ELSE <<>>

\* corrected is non-empty and differs from original
Qualifies(a) ==
    /\ Get(a, "corrected", "") # ""
    /\ Get(a, "corrected", PyNone) # Get(a, "original", PyNone)

\* C7: the corrections projection save_results writes has a row for an entry
\* if and only if the entry's corrected value is non-empty and differs from
\* its original value.
C7_CorrectionsFilter ==
    SaveIsCurrent =>
        \A k \in 1..Len(all_analyses) :
            (\E r \in 1..Len(CorrectionsWritten) :
                CorrectionsWritten[r].Book_ID = all_analyses[k].book_id)
                <=> Qualifies(all_analyses[k])

\* C8: after every batch the number of accumulated entries equals the
\* processed counter, and at the end of the run the number of loaded records.
C8_OneEntryPerRecord ==
    /\ pc \in {"checkpoint", "loop", "done"} => Len(all_analyses) = processed
    /\ pc = "done" => Len(all_analyses) = Len(title_data)

FinalSaves == {k \in 1..Len(saves) : saves[k].suffix = 0}

\* C9: in a run that ends without an exception, exactly one save used the
\* unmarked name, it is the last save and it came after the last batch; the
\* unmarked translations and analysis files have one row per accumulated
\* entry, in order.  Before the end no save used the unmarked name.
C9_FinalWriteOnce ==
    /\ pc # "done" => FinalSaves = {}
    /\ pc = "done" =>
          /\ FinalSaves = {Len(saves)}
          /\ saves[Len(saves)].at = processed
          /\ Concat(batches) = title_data
          /\ \A p \in {"translations", "analysis"} :
                /\ files[<<p, 0>>].exists
                /\ Len(files[<<p, 0>>].rows) = Len(all_analyses)
                /\ \A k \in 1..Len(all_analyses) :
                      /\ files[<<p, 0>>].rows[k].Book_ID
                            = all_analyses[k].book_id
                      /\ files[<<p, 0>>].rows[k].Original
                            = Get(all_analyses[k], "original", "")

\* A checkpoint was written right after the last of several batches.
C9_Witness ==
    /\ pc = "done"
    /\ Len(batches) >= 2
    /\ Len(saves) >= 2
    /\ saves[Len(saves) - 1].at = processed
    /\ saves[Len(saves) - 1].suffix = processed

\* C10: at the end of every batch in which the processed count reached or
\* passed a further multiple of the interval, a checkpoint has been written
\* for that count.
C10_CheckpointEveryInterval ==
    (pc = "loop" /\ batches # <<>>
        /\ processed \div CheckpointInterval
              > (processed - Len(batch)) \div CheckpointInterval)
        => \E k \in 1..Len(saves) :
              saves[k].at = processed /\ saves[k].suffix = processed

\* The model call of the current batch failed.
GatewayFailed ==
    batches # <<>> /\ response_text = NoResponse /\ pc # "calling"

\* C11: when the model call of a batch fails, then with DEBUG set the error
\* is re-raised, the failed batch is not accumulated and the run takes no
\* further step; with DEBUG unset process_batch returns one stub per record
\* of the batch, in batch order, and nothing is raised.
C11_GatewayFailurePolicy ==
    /\ [](GatewayFailed =>
            IF DEBUG
            THEN /\ pc = "raised"
                 /\ exception = "APIError"
                 /\ Len(returned) = Len(batches) - 1
                 /\ all_analyses = Concat(returned)
                 /\ processed = Len(Concat(SubSeq(batches, 1, Len(batches) - 1)))
            ELSE /\ exception # "APIError"
                 /\ analyses = PyList(Stubs(batch))
                 /\ returned[Len(batches)] = Stubs(batch))
    /\ [][pc # "raised"]_vars

\* With DEBUG unset the loop goes on after a failed call.
C11_Witness ==
    /\ ~DEBUG
    /\ GatewayFailed
    /\ pc = "loop"
    /\ Len(batch) >= 2
    /\ i < Len(title_data)

\* An identifier-only entry.
IsStub(a) == DOMAIN a = {"book_id"}

\* C12: the translations and the analysis file save_results writes have one
\* row per accumulated entry, in the order of the entries, with the entry's
\* identifier; the rows of a stub have the identifier and empty fields.
C12_OneRowPerEntry ==
    SaveIsCurrent =>
        LET s  == saves[Len(saves)].suffix
            tr == files[<<"translations", s>>]
            an == files[<<"analysis", s>>]
        IN  /\ tr.exists /\ an.exists
            /\ Len(tr.rows) = Len(all_analyses)
            /\ Len(an.rows) = Len(all_analyses)
            /\ \A k \in 1..Len(all_analyses) :
                  /\ tr.rows[k].Book_ID = all_analyses[k].book_id
                  /\ an.rows[k].Book_ID = all_analyses[k].book_id
                  /\ IsStub(all_analyses[k]) =>
                        /\ tr.rows[k].Original = ""
                        /\ tr.rows[k].Translation = ""
                        /\ an.rows[k].Original = ""
                        /\ an.rows[k].Syntactic_Analysis = ""
                        /\ an.rows[k].Lexical_Analysis = ""
                        /\ an.rows[k].Particle_Analysis = ""

\* A checkpoint of a stub followed by a full entry.
C12_Witness ==
    /\ SaveIsCurrent
    /\ saves[Len(saves)].suffix > 0
    /\ Len(all_analyses) >= 2
    /\ IsStub(all_analyses[1])
    /\ ~IsStub(all_analyses[2])

\* The entries the filter of save_results selects for the corrections rows.
Selected == SelectSeq(all_analyses, HasCorrection)

CheckpointSaves ==
    {k \in 1..Len(saves) : k < Len(saves) \/ pc # "done"}

\* C14: every checkpoint save uses the suffix of the processed count it was
\* made at, which is not the unmarked name; no two checkpoint saves share a
\* suffix; the checkpoint step leaves the unmarked files as they are.
C14_CheckpointNames ==
    /\ [](/\ \A k \in CheckpointSaves :
                saves[k].suffix = saves[k].at /\ saves[k].suffix > 0
          /\ \A j, k \in CheckpointSaves :
                j # k => saves[j].suffix # saves[k].suffix)
    /\ [][pc = "checkpoint" =>
            \A p \in Projections : files'[<<p, 0>>] = files[<<p, 0>>]]_vars

\* Two checkpoints and the final save.
C14_Witness ==
    /\ pc = "done"
    /\ Len(saves) >= 3
    /\ files[<<"translations", saves[1].suffix>>].exists
    /\ files[<<"translations", saves[2].suffix>>].exists

\* C15: the count in the prompt of a batch is the number of records of the
\* batch, and the titles in the prompt are the titles of the batch, in order.
C15_PromptCount ==
    batches # <<>> =>
        /\ prompt.count = Len(batch)
        /\ Len(prompt.titles) = Len(batch)
        /\ \A k \in 1..Len(batch) : prompt.titles[k] = batch[k].title

\* The model call of a batch after the first is about to be made.
NextCall == pc = "calling" /\ Len(batches) >= 2

\* C16, as stated: when the model call of batch N+1 is made, a save has
\* written the entries accumulated up to batch N.
C16_CheckpointBeforeNextBatch ==
    NextCall => \E k \in 1..Len(saves) : saves[k].at = processed

\* C16, amended: when the model call of batch N+1 is made, what process_batch
\* returned for batches 1..N is accumulated in all_analyses and counted in
\* processed, and a save has written it if and only if that count is a
\* multiple of the interval.
C16_AccumulatedBeforeNextBatch ==
    NextCall =>
        /\ Len(returned) = Len(batches) - 1
        /\ all_analyses = Concat(returned)
        /\ processed = Len(Concat(SubSeq(batches, 1, Len(batches) - 1)))
        /\ (\E k \in 1..Len(saves) : saves[k].at = processed)
              <=> processed % CheckpointInterval = 0

\* A next call with the previous batch accumulated and not saved.
C16_Witness ==
    /\ NextCall
    /\ all_analyses # <<>>
    /\ processed % CheckpointInterval # 0
    /\ saves # <<>>

\* The run over no records.
EmptyRun == pc # "idle" /\ title_data = <<>>

\* C17: a run over no records forms no batch, makes no model call, writes no
\* checkpoint and raises nothing; its only step after loading is the final
\* save, which writes the translations and analysis files without a row.
C17_EmptyRun ==
    /\ [](EmptyRun =>
            /\ pc \in {"loop", "done"}
            /\ exception = ""
            /\ batches = <<>>
            /\ prompt = NoPrompt
            /\ response_text = NoResponse
            /\ returned = <<>>
            /\ all_analyses = <<>>
            /\ processed = 0
            /\ \A k \in 1..Len(saves) : saves[k].suffix = 0
            /\ pc = "done" =>
                  /\ Len(saves) = 1
                  /\ files[<<"translations", 0>>] = File(<<>>)
                  /\ files[<<"analysis", 0>>] = File(<<>>))
    /\ [][(EmptyRun /\ pc = "loop") => pc' = "done"]_vars

\* An empty run that ended, over the files of an earlier run.
C17_Witness ==
    /\ EmptyRun
    /\ pc = "done"
    /\ files[<<"corrections", 0>>] = File(<<StaleRow>>)

\* C18: of two saves of a run, the translations rows and the analysis rows of
\* the earlier one are a prefix of those of the later one; the final save is
\* the last one.
C18_CheckpointsArePrefixes ==
    \A j, k \in 1..Len(saves) :
        j < k =>
            \A p \in {"translations", "analysis"} :
                /\ files[<<p, saves[j].suffix>>].exists
                /\ files[<<p, saves[k].suffix>>].exists
                /\ IsPrefix(files[<<p, saves[j].suffix>>].rows,
                            files[<<p, saves[k].suffix>>].rows)

\* Two checkpoints of different lengths and the final save.
C18_Witness ==
    /\ pc = "done"
    /\ Len(saves) = 3
    /\ files[<<"analysis", saves[1].suffix>>].rows # <<>>
    /\ Len(files[<<"analysis", saves[1].suffix>>].rows)
          < Len(files[<<"analysis", saves[2].suffix>>].rows)

\* C19: when an exception ends the run, no save used the unmarked name, the
\* unmarked files are what they were before the run, the only files of the
\* run are those of its checkpoints, and the run takes no further step.  An
\* exception of process_batch ends the run only with DEBUG set.
C19_AbortWritesNothing ==
    /\ [](pc = "raised" =>
            /\ exception # ""
            /\ BatchRaised => DEBUG
            /\ \A k \in 1..Len(saves) :
                  saves[k].suffix > 0 /\ saves[k].at <= Len(Concat(batches))
            /\ \/ \A p \in Projections : files[<<p, 0>>] = NoFile
               \/ \A p \in Projections : files[<<p, 0>>] = File(<<StaleRow>>)
            /\ \A f \in FileNames :
                  (f[2] > 0 /\ files[f].exists)
                      => \E k \in 1..Len(saves) : saves[k].suffix = f[2])
    /\ [][pc = "raised" => pc' = "raised" /\ files' = files]_vars

\* The call of a batch failed after a checkpoint and a further batch: the
\* entries of that further batch are in no file.
C19_Witness ==
    /\ pc = "raised"
    /\ exception = "APIError"
    /\ saves # <<>>
    /\ Len(all_analyses) > Len(files[<<"translations", saves[Len(saves)].suffix>>].rows)

====
